---------------------------- MODULE Spec2Model ----------------------------
(***************************************************************************)
(* Model of src/model.rs: Ranking<Attribution>, its constructor            *)
(* (Default), hydrate_record_set ("build") and paginate.                   *)
(*                                                                         *)
(* A Ranking owns one Vec of RankedAttributionRecord.  hydrate_record_set  *)
(* collects a HashSet in its (unspecified) iteration order, sorts it with  *)
(* the stable sort_by_key, reverses it, ranks it with a lazy scan and      *)
(* stores the collected result; paginate copies a sub-range of the Vec.    *)
(* A panic (assert!, slice index, arithmetic overflow) unwinds out of the  *)
(* call and is recorded in `outcome`.                                      *)
(***************************************************************************)
EXTENDS Integers, Sequences, FiniteSets

(* ---------------------------- bounds ----------------------------------- *)

\* number of distinct players (subjects) that may occur in an input set
MaxPlayers == 2

\* attribution values (the wrapped u64) range over 0..MaxAttribution
MaxAttribution == 1

\* width of usize in the model; offsets and limits range over 0..2^WordBits-1
WordBits == 2

Players == 1..MaxPlayers

Attributions == 0..MaxAttribution

UsizeModulus == 2 ^ WordBits

Usize == 0..(UsizeModulus - 1)

(* ---------------------------- data types ------------------------------- *)

\* struct AttributionRecord { player, attribution }
AttributionRecord == [player : Players, attribution : Attributions]

\* struct RankedAttributionRecord { rank, attribution_record }
RankedAttributionRecord(rank, record) ==
    [rank |-> rank, attribution_record |-> record]

Range(s) == {s[i] : i \in 1..Len(s)}

\* the HashSet values a caller can hand over: at most one record per player
RecordSets ==
    {S \in SUBSET AttributionRecord :
        \A a \in S : \A b \in S : a.player = b.player => a = b}

RECURSIVE Perms(_)
\* every order in which HashSet::into_iter may yield the elements of S
Perms(S) ==
    IF S = {} THEN {<<>>}
    ELSE UNION {{<<x>> \o p : p \in Perms(S \ {x})} : x \in S}

\* all (set, iteration order) inputs of hydrate_record_set
IterationOrders == UNION {Perms(S) : S \in RecordSets}

(* ---------------------------- state ------------------------------------ *)

VARIABLES
    sorted_ranked_records,  \* Ranking.sorted_ranked_records
    op,                     \* the last call made on the Ranking
    records,                \* argument of the last hydrate_record_set call
    offset,                 \* arguments of the last paginate call
    limit,
    outcome,                \* how the last call ended: returned or a panic
    slice,                  \* RankingSlice returned by the last paginate call
    overflow_checks         \* build profile: are integer overflow checks compiled in

vars == <<sorted_ranked_records, op, records, offset, limit, outcome, slice,
          overflow_checks>>

Panicked == outcome # "returned"

(* ---------------------------- hydrate_record_set ----------------------- *)

RECURSIVE InsertByKey(_, _)
\* place x behind every element whose key is <= its own (stable insertion)
InsertByKey(x, v) ==
    IF v = <<>> THEN <<x>>
    ELSE IF v[Len(v)].attribution <= x.attribution THEN Append(v, x)
    ELSE Append(InsertByKey(x, SubSeq(v, 1, Len(v) - 1)), v[Len(v)])

RECURSIVE SortByKey(_)
\* records.sort_by_key(|ar| ar.attribution.clone()): stable, ascending
SortByKey(v) ==
    IF v = <<>> THEN <<>>
    ELSE InsertByKey(v[Len(v)], SortByKey(SubSeq(v, 1, Len(v) - 1)))

\* mutant of Reverse: the call to reverse() is left out
Reverse_Omitted(v) == v

\* records.reverse()
Reverse(v) == [i \in 1..Len(v) |-> v[Len(v) + 1 - i]]

\* initial_scan_state
InitialScanState(first_record) ==
    [next_item_index |-> 0,
     previous_attribution |-> first_record.attribution,
     previous_item_rank |-> 1]

\* the assert! of the scan closure: it is evaluated only when the
\* attributions differ, and the closure panics when it is false
AssertHolds(st, record) ==
    st.previous_attribution = record.attribution
        \/ st.previous_attribution < record.attribution

\* next_rank of the scan closure; the cast `as u32` changes no index the
\* model reaches
NextRank(st, record) ==
    IF st.previous_attribution = record.attribution
    THEN st.previous_item_rank
    ELSE st.next_item_index + 1

\* the state updates at the end of the scan closure
NextScanState(st, record) ==
    [next_item_index |-> st.next_item_index + 1,
     previous_attribution |-> record.attribution,
     previous_item_rank |-> NextRank(st, record)]

RECURSIVE ScanTail(_, _, _)
\* tail_records.iter().scan(st, closure) driven by collect(): acc holds the
\* records produced so far; a failed assert! ends the iteration by a panic
ScanTail(tail, st, acc) ==
    IF tail = <<>> THEN [panicked |-> FALSE, out |-> acc]
    ELSE IF ~AssertHolds(st, tail[1]) THEN [panicked |-> TRUE, out |-> acc]
    ELSE ScanTail(SubSeq(tail, 2, Len(tail)),
                  NextScanState(st, tail[1]),
                  Append(acc, RankedAttributionRecord(NextRank(st, tail[1]), tail[1])))

\* mutant of CollectInto: the ranked records are pushed into self one by one
\* while the scan runs, so a panic leaves the prefix produced so far
CollectInto_Eager(self, scan) ==
    IF scan.panicked
    THEN [outcome |-> "panic_assert", sorted_ranked_records |-> scan.out]
    ELSE [outcome |-> "returned", sorted_ranked_records |-> scan.out]

\* self.sorted_ranked_records = iter::once(first_ranked_record)
\*     .chain(ranked_tail_records).collect()
\* The scan is lazy: it runs inside collect(), before the assignment to self
\* takes place, so a panic in it leaves self as it was.
CollectInto(self, scan) ==
    IF scan.panicked
    THEN [outcome |-> "panic_assert", sorted_ranked_records |-> self]
    ELSE [outcome |-> "returned", sorted_ranked_records |-> scan.out]

\* the body of hydrate_record_set behind the sort: `sorted` is the Vec
\* `records` after sort_by_key and reverse
RankSorted(self, sorted) ==
    IF sorted = <<>>
    THEN [outcome |-> "returned", sorted_ranked_records |-> <<>>]
    ELSE CollectInto(self,
                     ScanTail(SubSeq(sorted, 2, Len(sorted)),
                              InitialScanState(sorted[1]),
                              <<RankedAttributionRecord(1, sorted[1])>>))

\* the Vec written to self and how the call ends, for a Ranking holding
\* `self` and a HashSet iterated in the order `iter`
HydrateResult(self, iter) == RankSorted(self, Reverse(SortByKey(iter)))

\* the effect of the call on the Ranking and on what its caller sees
HydrateStep(r, iter) ==
    /\ sorted_ranked_records' = r.sorted_ranked_records
    /\ outcome' = r.outcome
    /\ op' = "hydrate_record_set"
    /\ records' = Range(iter)
    /\ offset' = 0
    /\ limit' = 0
    /\ slice' = <<>>
    /\ UNCHANGED overflow_checks

\* pub fn hydrate_record_set(&mut self, records: HashSet<..>)
hydrate_record_set(iter) ==
    HydrateStep(HydrateResult(sorted_ranked_records, iter), iter)

(* ---------------------------- paginate --------------------------------- *)

\* offset + limit on usize: with overflow checks the addition panics when the
\* sum leaves the word, without them it wraps modulo 2^WordBits
AddUsize(a, b, checked) ==
    IF a + b >= UsizeModulus /\ checked
    THEN [panicked |-> TRUE, value |-> 0]
    ELSE [panicked |-> FALSE, value |-> (a + b) % UsizeModulus]

\* mutant of SliceToVec: the window is taken from the front of the Vec
SliceToVec_IgnoreOffset(v, start, end) ==
    IF start > end \/ end > Len(v)
    THEN [panicked |-> TRUE, out |-> <<>>]
    ELSE [panicked |-> FALSE, out |-> SubSeq(v, 1, end - start)]

Min(a, b) == IF a <= b THEN a ELSE b

\* mutant of SliceToVec: the window is clamped to the Vec instead of checked
SliceToVec_Clamp(v, start, end) ==
    IF start > end
    THEN [panicked |-> TRUE, out |-> <<>>]
    ELSE [panicked |-> FALSE,
          out |-> SubSeq(v, Min(start, Len(v)) + 1, Min(end, Len(v)))]

\* mutant of SliceToVec: only the end of the window is checked, and a window
\* that ends before it starts is taken to be empty
SliceToVec_EndOnly(v, start, end) ==
    IF end > Len(v) THEN [panicked |-> TRUE, out |-> <<>>]
    ELSE IF start > end THEN [panicked |-> FALSE, out |-> <<>>]
    ELSE [panicked |-> FALSE, out |-> SubSeq(v, start + 1, end)]

\* v.as_slice()[start..end].to_vec(): panics when start > end or end > len
SliceToVec(v, start, end) ==
    IF start > end \/ end > Len(v)
    THEN [panicked |-> TRUE, out |-> <<>>]
    ELSE [panicked |-> FALSE, out |-> SubSeq(v, start + 1, end)]

\* what paginate(offset, limit) does on the Vec `self`
PaginateResult(self, off, lim, checked) ==
    LET end == AddUsize(off, lim, checked) IN
    IF end.panicked
    THEN [outcome |-> "panic_overflow", slice |-> <<>>]
    ELSE LET s == SliceToVec(self, off, end.value) IN
         IF s.panicked
         THEN [outcome |-> "panic_index", slice |-> <<>>]
         ELSE [outcome |-> "returned", slice |-> s.out]

\* mutant of paginate: the window is moved out of the Vec (as Vec::drain
\* does) instead of copied
paginate_Drain(off, lim) ==
    LET r == PaginateResult(sorted_ranked_records, off, lim, overflow_checks) IN
    /\ outcome' = r.outcome
    /\ slice' = r.slice
    /\ op' = "paginate"
    /\ offset' = off
    /\ limit' = lim
    /\ records' = {}
    /\ sorted_ranked_records' =
           IF r.outcome = "returned"
           THEN SubSeq(sorted_ranked_records, 1, off)
                    \o SubSeq(sorted_ranked_records, off + lim + 1,
                              Len(sorted_ranked_records))
           ELSE sorted_ranked_records
    /\ UNCHANGED overflow_checks

\* pub fn paginate(&self, offset: usize, limit: usize) -> RankingSlice
paginate(off, lim) ==
    LET r == PaginateResult(sorted_ranked_records, off, lim, overflow_checks) IN
    /\ outcome' = r.outcome
    /\ slice' = r.slice
    /\ op' = "paginate"
    /\ offset' = off
    /\ limit' = lim
    /\ records' = {}
    /\ UNCHANGED <<sorted_ranked_records, overflow_checks>>

(* ---------------------------- specification ---------------------------- *)

\* impl Default for Ranking
Init ==
    /\ sorted_ranked_records = <<>>
    /\ op = "default"
    /\ records = {}
    /\ offset = 0
    /\ limit = 0
    /\ outcome = "returned"
    /\ slice = <<>>
    /\ overflow_checks \in BOOLEAN

Next ==
    \/ \E iter \in IterationOrders : hydrate_record_set(iter)
    \/ \E off \in Usize : \E lim \in Usize : paginate(off, lim)

Spec == Init /\ [][Next]_vars

(* ---------------------------- properties ------------------------------- *)

Length == Len(sorted_ranked_records)

RankAt(v, i) == v[i].rank

ValueAt(v, i) == v[i].attribution_record.attribution

\* the competition rank law on a ranked sequence (indices from 1: the record
\* at index i has the 1-based position i)
RankLaw(v) ==
    \A i \in 1..Len(v) :
        IF i = 1 \/ ValueAt(v, i) # ValueAt(v, i - 1)
        THEN RankAt(v, i) = i
        ELSE RankAt(v, i) = RankAt(v, i - 1)

\* the rank the law gives a record of the set S: one more than the number of
\* records of S with a greater value
CompetitionRank(r, S) ==
    1 + Cardinality({x \in S : x.attribution > r.attribution})

ValuesNonIncreasing(v) ==
    \A i \in 2..Len(v) : ValueAt(v, i - 1) >= ValueAt(v, i)

RanksNonDecreasing(v) ==
    \A i \in 2..Len(v) : RankAt(v, i - 1) <= RankAt(v, i)

\* v is a complete ranked sequence of the record set S
IsRankingOf(v, S) ==
    /\ Len(v) = Cardinality(S)
    /\ {v[i].attribution_record : i \in 1..Len(v)} = S
    /\ ValuesNonIncreasing(v)
    /\ RankLaw(v)

InRange == offset <= Length /\ offset + limit <= Length

\* C1: after hydrate_record_set of an input set, the stored sequence is the
\* input ranked by the competition rank law: rank 1 at the first index, the
\* predecessor's rank on an equal value, the own 1-based position otherwise
\* (so values 10,10,8,8,5 rank 1,1,3,3,5).
C1_RankLaw ==
    op = "hydrate_record_set" =>
        /\ RankLaw(sorted_ranked_records)
        /\ \A r \in records :
               \E i \in 1..Length :
                   /\ sorted_ranked_records[i].attribution_record = r
                   /\ sorted_ranked_records[i].rank = CompetitionRank(r, records)

\* C2: hydrate_record_set succeeds on every input set: the assert! of the
\* rank-assignment pass never fails, so no call ends in a panic.
C2_BuildAlwaysSucceeds ==
    op = "hydrate_record_set" => outcome = "returned"

\* C3: a paginate call whose window lies inside the sequence returns exactly
\* the records at positions [offset, offset+limit), in order and unchanged;
\* paginate(0, length) returns the whole sequence.
C3_PaginationCorrect ==
    (op = "paginate" /\ InRange) =>
        /\ outcome = "returned"
        /\ Len(slice) = limit
        /\ \A k \in 1..limit : slice[k] = sorted_ranked_records[offset + k]
        /\ (offset = 0 /\ limit = Length) => slice = sorted_ranked_records

C3_Witness ==
    /\ op = "paginate"
    /\ outcome = "returned"
    /\ offset >= 1
    /\ limit >= 1
    /\ InRange

\* C4: paginate ends in a panic exactly when offset > length or
\* offset + limit > length; every other window is accepted, also
\* offset = length with limit = 0, and an empty ranking accepts only (0, 0).
C4_FatalExactlyOutOfRange ==
    op = "paginate" =>
        /\ Panicked <=> (offset > Length \/ offset + limit > Length)
        /\ Length = 0 => (outcome = "returned" <=> (offset = 0 /\ limit = 0))
        /\ (offset = Length /\ limit = 0) => (outcome = "returned" /\ slice = <<>>)

C4_Witness ==
    /\ op = "paginate"
    /\ Length = 1
    /\ offset = 1
    /\ limit = 1
    /\ Panicked

\* C5: after hydrate_record_set the stored sequence is as long as the input
\* set is large and holds each input record exactly once.
C5_SizePreserved ==
    op = "hydrate_record_set" =>
        /\ Length = Cardinality(records)
        /\ \A r \in records :
               Cardinality({i \in 1..Length :
                   sorted_ranked_records[i].attribution_record = r}) = 1

\* C6: in every reachable state the stored ranks are non-decreasing and the
\* stored values non-increasing along the sequence.
C6_Monotone ==
    /\ RanksNonDecreasing(sorted_ranked_records)
    /\ ValuesNonIncreasing(sorted_ranked_records)

C6_Witness ==
    /\ op = "hydrate_record_set"
    /\ outcome = "returned"
    /\ Length >= 2

\* C7: a second hydrate_record_set with the same record set leaves the stored
\* sequence as the first one made it, whatever order the set is iterated in,
\* the order of the subjects inside a run of equal values included.
C7_IdempotentRebuild ==
    [][(op = "hydrate_record_set" /\ op' = "hydrate_record_set"
            /\ records' = records)
        => sorted_ranked_records' = sorted_ranked_records]_vars

\* C8: paginate leaves the stored sequence as it is, whether it returns or
\* panics, and a paginate call repeated with the same arguments ends the same
\* way with an equal slice.
C8_PaginatePure ==
    [][/\ op' = "paginate" => sorted_ranked_records' = sorted_ranked_records
       /\ (op = "paginate" /\ op' = "paginate"
               /\ offset' = offset /\ limit' = limit)
           => (slice' = slice /\ outcome' = outcome)]_vars

C8_Witness ==
    /\ op = "paginate"
    /\ outcome = "returned"
    /\ Len(slice) >= 1

\* C9: a hydrate_record_set call, completed or aborted, leaves either the
\* sequence stored before the call or a complete ranked sequence of its input
\* set, never a part of one or a mix of both.
C9_WholesaleReplace ==
    [][op' = "hydrate_record_set" =>
          \/ sorted_ranked_records' = sorted_ranked_records
          \/ IsRankingOf(sorted_ranked_records', records')]_vars

C9_Witness ==
    /\ op = "hydrate_record_set"
    /\ outcome = "panic_assert"
    /\ Length >= 1

\* C10: when offset + limit leaves the word, paginate panics and returns no
\* slice: where the sum wraps, the wrapped end index is below offset.
C10_OverflowIsFatal ==
    (op = "paginate" /\ offset + limit >= UsizeModulus) =>
        /\ Panicked
        /\ (offset + limit) % UsizeModulus < offset

C10_Witness ==
    /\ op = "paginate"
    /\ offset + limit >= UsizeModulus
    /\ (offset + limit) % UsizeModulus <= Length
    /\ outcome = "panic_index"

=============================================================================
